---- MODULE Spec2Model ----
(***************************************************************************)
(* Model of create-github-repo-api.py: one run of the script resolves a    *)
(* GitHub token (get_github_token), issues one POST to /user/repos         *)
(* (create_github_repo), configures the origin remote and pushes           *)
(* (setup_git_remote), and reports (main).  The script may be run again    *)
(* against the same local repository; the only state that survives a run   *)
(* is the repository's origin remote.                                      *)
(*                                                                         *)
(* Text the program inspects character by character (token values) is a    *)
(* sequence of one-character strings; text it only prints or compares as   *)
(* a whole is a TLA+ string.  An optional value (Python None or a value)   *)
(* is a sequence of length 0 or 1.                                         *)
(***************************************************************************)
EXTENDS Integers, Sequences, FiniteSets, TLC

\* ---------------------------------------------------------------- bounds
\* Longest text an external source (helper stdout, variable, file) holds.
MaxLen == 2
\* Number of times the script is run against the same local repository.
MaxRuns == 2

\* ---------------------------------------------------------- configuration
GITHUB_USERNAME == "kentin0-fiz0l"
REPO_NAME == "FluxStudio"

\* ------------------------------------------------------------------ text
Whitespace == {" ", "\n"}
Alphabet == {"\n", "t"}
Texts == UNION {[1..k -> Alphabet] : k \in 0..MaxLen}

None == <<>>
Some(v) == <<v>>

RECURSIVE LStrip(_)
LStrip(s) ==
    IF s # <<>> /\ Head(s) \in Whitespace THEN LStrip(Tail(s)) ELSE s

RECURSIVE RStrip(_)
RStrip(s) ==
    IF s # <<>> /\ s[Len(s)] \in Whitespace
    THEN RStrip(SubSeq(s, 1, Len(s) - 1))
    ELSE s

\* str.strip()
Strip(s) == RStrip(LStrip(s))

\* Truth value of an optional string: None and "" are falsy.
Truthy(opt) == opt # None /\ opt[1] # <<>>

\* ------------------------------------------------- the resolver's sources
\* What one consultation of a source can observe.  One record shape for all
\* sources: src names the source, kind what happened, rc the helper's exit
\* status, val the text obtained.
Obs(src, kind, rc, val) == [src |-> src, kind |-> kind, rc |-> rc, val |-> val]

\* subprocess.run(['gh','auth','token'], timeout=5): the command is missing
\* (FileNotFoundError), runs out of time (TimeoutExpired), or exits.
HelperOutcomes ==
    {Obs("gh", "missing", 0, <<>>), Obs("gh", "timeout", 0, <<>>)}
    \cup {Obs("gh", "exit", rc, s) : rc \in {0, 1}, s \in Texts}

\* os.environ.get(name): unset, or set to a text.
EnvOutcomes(name) ==
    {Obs(name, "unset", 0, <<>>)} \cup {Obs(name, "set", 0, s) : s \in Texts}

\* A token file: missing, present but unreadable (open raises), or readable.
FileOutcomes(path) ==
    {Obs(path, "missing", 0, <<>>), Obs(path, "unreadable", 0, <<>>)}
    \cup {Obs(path, "readable", 0, s) : s \in Texts}

token_files == <<"~/.github_token", "~/.config/gh/token">>

\* os.environ.get(name) as an optional text.
EnvGet(o) == IF o.kind = "set" THEN Some(o.val) ELSE None

\* Variant: the helper's exit status is not checked.
HelperYieldsAnyExit(o) == o.kind = "exit" /\ Strip(o.val) # <<>>

\* result.returncode == 0 and result.stdout.strip()
HelperYields(o) == o.kind = "exit" /\ o.rc = 0 /\ Strip(o.val) # <<>>

\* `a or b` on optional strings.
Or(a, b) == IF Truthy(a) THEN a ELSE b

\* ------------------------------------------------------- the HTTP request
\* A parsed JSON value is [form |-> "object", val |-> record of members] or
\* [form |-> "array", val |-> sequence].  A response body is either such a
\* value (json.loads returns it) or text that json.loads rejects.
JObject(fields) == [form |-> "object", val |-> fields]
JArray(items) == [form |-> "array", val |-> items]
JInvalid == [form |-> "invalid", val |-> <<>>]
EmptyDict == [k \in {} |-> 0]

Response(kind, status, raw, body) ==
    [kind |-> kind, status |-> status, raw |-> raw, body |-> body]

\* What urlopen can meet: no HTTP response at all (URLError), or a response
\* with a status and a body.
Responses ==
    << Response("transport", 0, "", JInvalid),
       Response("http", 201, "{html_url}",
                JObject([html_url |-> "https://github.com/kentin0-fiz0l/FluxStudio"])),
       Response("http", 201, "<html>OK</html>", JInvalid),
       Response("http", 201, "{id}", JObject([id |-> "1"])),
       Response("http", 401, "{message}", JObject([message |-> "Bad credentials"])),
       Response("http", 422, "{message,errors}",
                JObject([message |-> "Validation Failed",
                         errors |-> <<[field |-> "name", code |-> "already_exists"]>>])),
       Response("http", 422, "{message}",
                JObject([message |-> "Repository creation failed."])),
       Response("http", 422, "{message,errors}",
                JObject([message |-> "Validation Failed",
                         errors |-> <<[field |-> "description", code |-> "custom"]>>])),
       Response("http", 500, "Internal Server Error", JInvalid),
       Response("http", 403, "[]", JArray(<<>>)) >>

\* urlopen raises HTTPError for a status outside 2xx.
IsHTTPError(r) == r.status < 200 \/ r.status > 299

\* json.loads
JsonParses(body) == body.form # "invalid"

\* create_github_repo's return value or the exception that leaves it:
\* [exc |-> name or "", success |-> BOOLEAN, result |-> parsed value].
Outcome(exc, success, result) == [exc |-> exc, success |-> success, result |-> result]

create_github_repo(r) ==
    IF r.kind = "transport" THEN Outcome("URLError", FALSE, JInvalid)
    ELSE IF ~IsHTTPError(r)
    THEN IF JsonParses(r.body)
         THEN Outcome("", TRUE, r.body)
         ELSE Outcome("JSONDecodeError", FALSE, JInvalid)
    ELSE IF JsonParses(r.body)
         THEN Outcome("", FALSE, r.body)
         ELSE Outcome("", FALSE, JObject([message |-> r.raw]))

\* `key in result`: a member name of an object; an element of an array.
In(key, v) ==
    IF v.form = "object" THEN key \in DOMAIN v.val
    ELSE \E i \in 1..Len(v.val) : v.val[i] = key

\* dict.get(key, default)
Get(d, key, default) == IF key \in DOMAIN d THEN d[key] ELSE default

\* main's decision on a creation that did not succeed (the if/elif/else on
\* `result`): "abort_errors", "continue", "abort_message", or the exception
\* raised while deciding.
\* Variant: only a result with an errors member aborts.
ClassifyLenient(result) ==
    IF In("errors", result) THEN "abort_errors" ELSE "continue"

Classify(result) ==
    IF In("errors", result) THEN "abort_errors"
    ELSE IF result.form # "object" THEN "AttributeError"
    ELSE IF Get(result.val, "message", "") = "Repository creation failed."
    THEN "abort_errors"
    ELSE IF "name" \in DOMAIN (Get(result.val, "errors", <<EmptyDict>>)[1])
    THEN "continue"
    ELSE "abort_message"

\* main's reading of result['html_url'] after a success.
HtmlUrl(result) ==
    IF result.form # "object" THEN [exc |-> "TypeError", url |-> ""]
    ELSE IF "html_url" \notin DOMAIN result.val THEN [exc |-> "KeyError", url |-> ""]
    ELSE [exc |-> "", url |-> result.val.html_url]

\* -------------------------------------------------------------------- git
RemoteUrl == "git@github.com:" \o GITHUB_USERNAME \o "/" \o REPO_NAME \o ".git"
OtherUrl == "git@github.com:someone/else.git"

commands ==
    << <<"git", "remote", "remove", "origin">>,
       <<"git", "remote", "add", "origin", RemoteUrl>>,
       <<"git", "branch", "-M", "main">>,
       <<"git", "push", "-u", "origin", "main">> >>

RECURSIVE Join(_)
\* ' '.join(cmd)
Join(cmd) ==
    IF Len(cmd) = 1 THEN cmd[1] ELSE cmd[1] \o " " \o Join(Tail(cmd))

\* `'w1 w2' in ' '.join(cmd)` for a command whose words hold no blanks.
HasWords(cmd, w1, w2) ==
    \E i \in 1..(Len(cmd) - 1) : cmd[i] = w1 /\ cmd[i + 1] = w2

\* What subprocess.run(cmd) can do, given the origin remote: the command
\* cannot be run at all (run raises), or it runs and exits zero ("ok") or
\* non-zero ("fail").  `remote remove` cannot succeed without an origin,
\* `remote add` cannot succeed with one, `push` cannot succeed without one.
Ran(status, stderr, after) == [status |-> status, stderr |-> stderr, origin |-> after]

GitOutcomes(cmd, org) ==
    {Ran("raise", "", org)} \cup
    IF HasWords(cmd, "remote", "remove")
    THEN {Ran("fail", "error: No such remote: 'origin'", org)}
         \cup (IF org # None THEN {Ran("ok", "", None)} ELSE {})
    ELSE IF HasWords(cmd, "remote", "add")
    THEN {Ran("fail", "error: remote origin already exists.", org)}
         \cup (IF org = None THEN {Ran("ok", "", Some(cmd[5]))} ELSE {})
    ELSE IF cmd[2] = "push"
    THEN (IF org = None
          THEN {Ran("fail", "fatal: 'origin' does not appear to be a git repository", org)}
          ELSE {Ran("ok", "", org), Ran("fail", "remote: Permission denied", org)})
    ELSE {Ran("ok", "", org), Ran("fail", "fatal: not a git repository", org)}

\* The body of setup_git_remote's loop for one command: "next" (go on to
\* the following command), "push_failed" or "command_failed" (return False).
\* Variant: every non-zero exit ends the function.
StepAnyFailFatal(cmd, status) ==
    IF status = "raise"
    THEN IF ~HasWords(cmd, "remote", "remove") THEN "command_failed" ELSE "next"
    ELSE IF status = "fail" THEN "push_failed"
    ELSE "next"

\* Variant: the exit status of `remote remove` is checked like the push's.
StepRemoveChecked(cmd, status) ==
    IF status = "raise"
    THEN IF ~HasWords(cmd, "remote", "remove") THEN "command_failed" ELSE "next"
    ELSE IF status = "fail" /\ HasWords(cmd, "remote", "add") THEN "next"
    ELSE IF status = "fail" /\ cmd[1] = "git" /\ cmd[2] \in {"push", "remote"}
    THEN "push_failed"
    ELSE "next"

\* Variant: the push's exit status is not checked.
StepPushIgnored(cmd, status) ==
    IF status = "raise"
    THEN IF ~HasWords(cmd, "remote", "remove") THEN "command_failed" ELSE "next"
    ELSE "next"

Step(cmd, status) ==
    IF status = "raise"
    THEN IF ~HasWords(cmd, "remote", "remove") THEN "command_failed" ELSE "next"
    ELSE IF status = "fail" /\ HasWords(cmd, "remote", "add") THEN "next"
    ELSE IF status = "fail" /\ cmd[1] = "git" /\ cmd[2] = "push" THEN "push_failed"
    ELSE "next"

\* ----------------------------------------------------------------- output
\* The lines main and setup_git_remote print.  The script's symbols are
\* written in ASCII: [x] for its cross mark, [ok] for its check mark, [!]
\* for its warning sign.
Rule == "=================================================="

Header ==
    <<Rule, "FluxStudio - GitHub Repository Creation", Rule, "",
      "1. Getting GitHub authentication token...">>

NoTokenHelp ==
    <<"\n[x] No GitHub token found!", "",
      "Please set up authentication using one of these methods:", "",
      "Option 1: GitHub CLI", "  gh auth login", "",
      "Option 2: Environment Variable", "  export GITHUB_TOKEN='your_token_here'", "",
      "Option 3: Create token manually",
      "  1. Go to: https://github.com/settings/tokens/new",
      "  2. Select scopes: repo (all)", "  3. Generate token",
      "  4. Save to ~/.github_token", "",
      "Option 4: Manual Setup", "  1. Go to: https://github.com/new",
      "  2. Name: FluxStudio", "  3. Visibility: Public", "  4. Don't initialize",
      "  5. Run: git remote add origin git@github.com:kentin0-fiz0l/FluxStudio.git",
      "  6. Run: git push -u origin main">>

TokenFound == <<"[ok] GitHub token found", "\n2. Creating GitHub repository...">>

\* Variant: the failure is announced without the commands.
ManualPushBare == <<"\n[!] Failed to push code automatically">>

ManualPush ==
    <<"\n[!] Failed to push code automatically", "\nManual push commands:",
      "  git remote add origin " \o RemoteUrl,
      "  git branch -M main",
      "  git push -u origin main">>

Banner(repo_url) ==
    <<"", Rule, "[ok] GitHub Repository Setup Complete!", Rule, "",
      "Repository URL: " \o repo_url, "", "Next Steps:",
      "  1. Verify repository: " \o repo_url,
      "  2. Deploy to App Platform: ./deploy-complete.sh", "  or",
      "  2. Run: doctl apps create --spec .do/app.yaml --wait", "">>

\* repr of a result dict in "Error: {result}": its message, when it has one.
Repr(result) ==
    IF result.form = "object" /\ "message" \in DOMAIN result.val
    THEN "{'message': '" \o result.val.message \o "', ...}"
    ELSE "{...}"

CreateFailed(detail) == <<"\n[x] Failed to create repository", "Error: " \o detail>>

\* ----------------------------------------------------------------- state
VARIABLES
    run,           \* number of the current run of the script
    pc,            \* position of the run
    origin,        \* the local repository's origin remote: None or Some(url)
    token,         \* get_github_token's return value
    consulted,     \* the observations of the get_github_token call, in order
    fi,            \* index into token_files
    effects,       \* the run's external reads, requests and commands, in order
    resp,          \* the response the POST met: None or Some(response)
    success,       \* create_github_repo's first return value
    result,        \* create_github_repo's second return value
    repo_url,      \* main's repo_url
    ci,            \* index into commands
    cmdlog,        \* setup_git_remote's commands so far, with their outcomes
    pubResult,     \* setup_git_remote's return value: None or Some(BOOLEAN)
    originAtStart, \* origin when setup_git_remote was called
    prevPub,       \* the previous setup_git_remote call on this repository
    ret,           \* main's return value; -1 while it has not returned
    raised,        \* name of the exception that left main uncaught, or ""
    out            \* lines printed by the run

vars == <<run, pc, origin, prevPub, token, consulted, fi, effects, resp, success,
          result, repo_url, ci, cmdlog, pubResult, originAtStart, ret, raised, out>>

\* The run-local state at the start of a run, as a record.
Fresh ==
    [token |-> None, consulted |-> <<>>, fi |-> 1, effects |-> <<>>,
     resp |-> None, success |-> FALSE, result |-> JInvalid, repo_url |-> "",
     ci |-> 1, cmdlog |-> <<>>, pubResult |-> None, originAtStart |-> None,
     ret |-> -1, raised |-> "", out |-> <<>>]

Init ==
    /\ run = 1
    /\ pc = "start"
    /\ origin \in {None, Some(RemoteUrl), Some(OtherUrl)}
    /\ prevPub = None
    /\ token = Fresh.token
    /\ consulted = Fresh.consulted
    /\ fi = Fresh.fi
    /\ effects = Fresh.effects
    /\ resp = Fresh.resp
    /\ success = Fresh.success
    /\ result = Fresh.result
    /\ repo_url = Fresh.repo_url
    /\ ci = Fresh.ci
    /\ cmdlog = Fresh.cmdlog
    /\ pubResult = Fresh.pubResult
    /\ originAtStart = Fresh.originAtStart
    /\ ret = Fresh.ret
    /\ raised = Fresh.raised
    /\ out = Fresh.out

\* An exception nothing catches: it leaves main and ends the process.
Uncaught(exc) ==
    /\ raised' = exc
    /\ pc' = "done"

\* main, lines 122-129: the heading, then the call of get_github_token.
Main_Start ==
    /\ pc = "start"
    /\ out' = out \o Header
    /\ pc' = "gh"
    /\ UNCHANGED <<run, origin, prevPub, token, consulted, fi, effects, resp,
                   success, result, repo_url, ci, cmdlog, pubResult,
                   originAtStart, ret, raised>>

\* get_github_token, lines 23-33: the gh helper.
TryGhCli ==
    /\ pc = "gh"
    /\ \E o \in HelperOutcomes :
        /\ consulted' = Append(consulted, o)
        /\ effects' = Append(effects, "gh auth token")
        /\ IF HelperYields(o)
           THEN token' = Some(Strip(o.val)) /\ pc' = "got_token"
           ELSE token' = token /\ pc' = "env"
    /\ UNCHANGED <<run, origin, prevPub, fi, resp, success, result, repo_url,
                   ci, cmdlog, pubResult, originAtStart, ret, raised, out>>

\* get_github_token, lines 36-38: GITHUB_TOKEN or GH_TOKEN.
TryEnvironment ==
    /\ pc = "env"
    /\ \E g \in EnvOutcomes("GITHUB_TOKEN"), h \in EnvOutcomes("GH_TOKEN") :
        LET first == Truthy(EnvGet(g))
            tok == Or(EnvGet(g), EnvGet(h))
        IN  /\ consulted' = consulted \o (IF first THEN <<g>> ELSE <<g, h>>)
            /\ effects' = effects \o (IF first THEN <<"environ GITHUB_TOKEN">>
                                      ELSE <<"environ GITHUB_TOKEN", "environ GH_TOKEN">>)
            /\ IF Truthy(tok)
               THEN token' = tok /\ pc' = "got_token"
               ELSE token' = token /\ pc' = "file"
    /\ fi' = 1
    /\ UNCHANGED <<run, origin, prevPub, resp, success, result, repo_url, ci,
                   cmdlog, pubResult, originAtStart, ret, raised, out>>

\* get_github_token, lines 45-52: one iteration of the loop over token_files,
\* and the return of None after the last one.
TryTokenFile ==
    /\ pc = "file"
    /\ \E o \in FileOutcomes(token_files[fi]) :
        /\ consulted' = Append(consulted, o)
        /\ effects' = Append(effects, "open " \o token_files[fi])
        /\ IF o.kind = "unreadable"
           THEN /\ Uncaught("PermissionError")
                /\ UNCHANGED <<token, fi>>
           ELSE IF o.kind = "readable" /\ Strip(o.val) # <<>>
           THEN /\ token' = Some(Strip(o.val))
                /\ pc' = "got_token"
                /\ UNCHANGED <<fi, raised>>
           ELSE /\ fi' = fi + 1
                /\ pc' = IF fi = Len(token_files) THEN "got_token" ELSE "file"
                /\ UNCHANGED <<token, raised>>
    /\ UNCHANGED <<run, origin, prevPub, resp, success, result, repo_url, ci,
                   cmdlog, pubResult, originAtStart, ret, out>>

\* main, lines 131-160: get_github_token has returned.
Main_CheckToken ==
    /\ pc = "got_token"
    /\ IF ~Truthy(token)
       THEN /\ out' = out \o NoTokenHelp
            /\ ret' = 1
            /\ pc' = "done"
       ELSE /\ out' = out \o TokenFound
            /\ ret' = ret
            /\ pc' = "create"
    /\ consulted' = <<>>
    /\ fi' = 1
    /\ UNCHANGED <<run, origin, prevPub, token, effects, resp, success, result,
                   repo_url, ci, cmdlog, pubResult, originAtStart, raised>>

\* create_github_repo, lines 75-92: the POST and the reading of its answer.
CreateGithubRepo ==
    /\ pc = "create"
    /\ \E i \in 1..Len(Responses) :
        LET o == create_github_repo(Responses[i])
        IN  /\ resp' = Some(Responses[i])
            /\ effects' = Append(effects, "POST /user/repos")
            /\ IF o.exc # ""
               THEN /\ Uncaught(o.exc)
                    /\ UNCHANGED <<success, result>>
               ELSE /\ success' = o.success
                    /\ result' = o.result
                    /\ pc' = "created"
                    /\ UNCHANGED raised
    /\ UNCHANGED <<run, origin, prevPub, token, consulted, fi, repo_url, ci,
                   cmdlog, pubResult, originAtStart, ret, out>>

EnterSetup ==
    /\ pc' = "setup"
    /\ originAtStart' = origin

\* main, lines 163-181: the decision on create_github_repo's result.
Main_HandleCreation ==
    /\ pc = "created"
    /\ IF success
       THEN LET h == HtmlUrl(result)
            IN  IF h.exc # ""
                THEN /\ Uncaught(h.exc)
                     /\ UNCHANGED <<repo_url, out, ret, originAtStart>>
                ELSE /\ repo_url' = h.url
                     /\ out' = out \o <<"[ok] Repository created: " \o h.url,
                                        "\n3. Configuring git remote and pushing code...">>
                     /\ EnterSetup
                     /\ UNCHANGED <<ret, raised>>
       ELSE LET c == Classify(result)
            IN  IF c = "abort_errors"
                THEN /\ out' = out \o CreateFailed(Repr(result))
                     /\ ret' = 1
                     /\ pc' = "done"
                     /\ UNCHANGED <<repo_url, raised, originAtStart>>
                ELSE IF c = "continue"
                THEN /\ repo_url' = "https://github.com/" \o GITHUB_USERNAME \o "/" \o REPO_NAME
                     /\ out' = out \o <<"[!] Repository might already exist, continuing...",
                                        "\n3. Configuring git remote and pushing code...">>
                     /\ EnterSetup
                     /\ UNCHANGED <<ret, raised>>
                ELSE IF c = "abort_message"
                THEN /\ out' = out \o CreateFailed(Get(result.val, "message", "Unknown error"))
                     /\ ret' = 1
                     /\ pc' = "done"
                     /\ UNCHANGED <<repo_url, raised, originAtStart>>
                ELSE /\ Uncaught(c)
                     /\ UNCHANGED <<repo_url, out, ret, originAtStart>>
    /\ UNCHANGED <<run, origin, prevPub, token, consulted, fi, effects, resp,
                   success, result, ci, cmdlog, pubResult>>

\* setup_git_remote, lines 104-119: one iteration of the loop over commands,
\* and the return of True after the last one.
RunGitCommand ==
    /\ pc = "setup"
    /\ LET cmd == commands[ci]
       IN  \E o \in GitOutcomes(cmd, origin) :
            LET s == Step(cmd, o.status)
            IN  /\ origin' = o.origin
                /\ effects' = Append(effects, Join(cmd))
                /\ cmdlog' = Append(cmdlog, [cmd |-> Join(cmd), status |-> o.status,
                                             stderr |-> o.stderr])
                /\ IF s = "push_failed"
                   THEN /\ out' = Append(out, "\n[x] Failed to push: " \o o.stderr)
                        /\ pubResult' = Some(FALSE)
                        /\ pc' = "published"
                        /\ ci' = ci
                   ELSE IF s = "command_failed"
                   THEN /\ out' = out \o <<"\n[x] Command failed: " \o Join(cmd),
                                           "Error: cannot run git">>
                        /\ pubResult' = Some(FALSE)
                        /\ pc' = "published"
                        /\ ci' = ci
                   ELSE /\ out' = out
                        /\ IF ci = Len(commands)
                           THEN pubResult' = Some(TRUE) /\ pc' = "published" /\ ci' = ci
                           ELSE pubResult' = pubResult /\ pc' = "setup" /\ ci' = ci + 1
    /\ UNCHANGED <<run, prevPub, token, consulted, fi, resp, success, result,
                   repo_url, originAtStart, ret, raised>>

\* main, lines 182-206: setup_git_remote has returned.
Main_HandlePublish ==
    /\ pc = "published"
    /\ IF pubResult[1]
       THEN /\ out' = out \o <<"[ok] Code pushed to GitHub">> \o Banner(repo_url)
            /\ ret' = 0
       ELSE /\ out' = out \o ManualPush
            /\ ret' = 1
    /\ pc' = "done"
    /\ UNCHANGED <<run, origin, prevPub, token, consulted, fi, effects, resp,
                   success, result, repo_url, ci, cmdlog, pubResult,
                   originAtStart, raised>>

\* The script is run again against the same local repository.
RunAgain ==
    /\ pc = "done"
    /\ run < MaxRuns
    /\ run' = run + 1
    /\ pc' = "start"
    /\ prevPub' = IF pubResult # None
                  THEN Some([before |-> originAtStart, result |-> pubResult[1],
                             after |-> origin])
                  ELSE prevPub
    /\ token' = Fresh.token
    /\ consulted' = Fresh.consulted
    /\ fi' = Fresh.fi
    /\ effects' = Fresh.effects
    /\ resp' = Fresh.resp
    /\ success' = Fresh.success
    /\ result' = Fresh.result
    /\ repo_url' = Fresh.repo_url
    /\ ci' = Fresh.ci
    /\ cmdlog' = Fresh.cmdlog
    /\ pubResult' = Fresh.pubResult
    /\ originAtStart' = Fresh.originAtStart
    /\ ret' = Fresh.ret
    /\ raised' = Fresh.raised
    /\ out' = Fresh.out
    /\ UNCHANGED origin

Next ==
    \/ Main_Start
    \/ TryGhCli
    \/ TryEnvironment
    \/ TryTokenFile
    \/ Main_CheckToken
    \/ CreateGithubRepo
    \/ Main_HandleCreation
    \/ RunGitCommand
    \/ Main_HandlePublish
    \/ RunAgain

Spec == Init /\ [][Next]_vars

\* =================================================================
\* What the specification says, stated over the runs of the model
\* =================================================================

\* A line was printed.
Printed(line) == \E i \in 1..Len(out) : out[i] = line

\* Number of times an external effect was issued in the run.
Count(e) == Cardinality({i \in 1..Len(effects) : effects[i] = e})

PushCmd == "git push -u origin main"
GitEffects ==
    {"git remote remove origin", "git remote add origin " \o RemoteUrl,
     "git branch -M main", PushCmd}
PostEffect == "POST /user/repos"
WebUrl == "https://github.com/kentin0-fiz0l/FluxStudio"

\* The specification's CreationOutcome of a response (section 4.2).
NamesNameField(e) ==
    \/ "name" \in DOMAIN e
    \/ ("field" \in DOMAIN e /\ e.field = "name")

SpecOutcome(r) ==
    IF r.kind = "http" /\ r.status \in 200..299 /\ r.body.form = "object"
       /\ "html_url" \in DOMAIN r.body.val
    THEN "Created"
    ELSE IF r.kind = "http" /\ r.status \notin 200..299 /\ r.body.form = "object"
            /\ \/ /\ "errors" \in DOMAIN r.body.val
                  /\ \E i \in 1..Len(r.body.val.errors) :
                        NamesNameField(r.body.val.errors[i])
               \/ /\ "message" \in DOMAIN r.body.val
                  /\ r.body.val.message = "Repository creation failed."
    THEN "AlreadyExists"
    ELSE "Failed"

NameCollision422 ==
    Some(Response("http", 422, "{message,errors}",
                  JObject([message |-> "Validation Failed",
                           errors |-> <<[field |-> "name", code |-> "already_exists"]>>])))

\* C1 (as claimed): a 422 response reporting a name collision is treated as
\* AlreadyExists: the run sets repo_url to https://github.com/<owner>/<repo>,
\* runs setup_git_remote, and is not ended with status 1 by that response.
C1_NameCollisionContinues ==
    (resp = NameCollision422 /\ pc = "done")
        => /\ repo_url = WebUrl
           /\ cmdlog # <<>>
           /\ ~(ret = 1 /\ pubResult = None)

\* ------------------------------------------------------------------- C2
SourceOrder ==
    <<"gh", "GITHUB_TOKEN", "GH_TOKEN", "~/.github_token", "~/.config/gh/token">>

IsEnv(o) == o.src \in {"GITHUB_TOKEN", "GH_TOKEN"}

\* A source yields a non-blank value: the helper exits zero with non-blank
\* output, a variable is set to a non-blank text, a file is readable and
\* non-blank.
YieldsNonBlank(o) ==
    /\ Strip(o.val) # <<>>
    /\ \/ o.src = "gh" /\ o.kind = "exit" /\ o.rc = 0
       \/ IsEnv(o) /\ o.kind = "set"
       \/ o.kind = "readable"

\* The same, with a variable yielding as soon as it is set and non-empty.
Yields(o) ==
    IF IsEnv(o) THEN o.kind = "set" /\ o.val # <<>> ELSE YieldsNonBlank(o)

\* The value a source hands over: helper output and file content trimmed, a
\* variable's text as it is.
Yielded(o) == IF IsEnv(o) THEN o.val ELSE Strip(o.val)

InFixedOrder == \A i \in 1..Len(consulted) : consulted[i].src = SourceOrder[i]

\* C2 (as claimed): when get_github_token returns, the sources it consulted
\* are a prefix of the fixed order, every consulted source but the last
\* yielded no non-blank value, and the token is the value of the last one,
\* or None after all five yielded nothing.
C2_FirstNonBlankSource ==
    pc = "got_token" =>
        LET n == Len(consulted)
        IN  /\ InFixedOrder
            /\ \A i \in 1..(n - 1) : ~YieldsNonBlank(consulted[i])
            /\ IF token = None
               THEN n = Len(SourceOrder) /\ ~YieldsNonBlank(consulted[n])
               ELSE YieldsNonBlank(consulted[n]) /\ token = Some(Yielded(consulted[n]))

\* C2 (amended): the same with "yields" meaning non-blank after trimming for
\* the helper and the files, and non-empty (blank or not) for the two
\* variables, whose text is returned untrimmed.
C2_FirstYieldingSource ==
    pc = "got_token" =>
        LET n == Len(consulted)
        IN  /\ InFixedOrder
            /\ \A i \in 1..(n - 1) : ~Yields(consulted[i])
            /\ IF token = None
               THEN n = Len(SourceOrder) /\ ~Yields(consulted[n])
               ELSE Yields(consulted[n]) /\ token = Some(Yielded(consulted[n]))

\* The helper exited non-zero, both variables yielded nothing, the first file
\* was blank, and the token came trimmed from the second file.
C2_Witness ==
    /\ pc = "got_token"
    /\ Len(consulted) = 5
    /\ consulted[1].kind = "exit" /\ consulted[1].rc = 1
    /\ consulted[2].kind = "unset"
    /\ consulted[3].kind = "set"
    /\ consulted[4].kind = "readable"
    /\ consulted[5].val = <<"t", "\n">>
    /\ token = Some(<<"t">>)

\* ------------------------------------------------------------------- C3
Resolved == Truthy(token)

\* C3 (as claimed): a finished run has main returning 0 or 1, and 0 exactly
\* when a token was resolved, the creation ended as Created or AlreadyExists,
\* and setup_git_remote reported success.
C3_DecisionTable ==
    pc = "done" =>
        /\ ret \in {0, 1}
        /\ ret = 0 <=> /\ Resolved
                       /\ resp # None
                       /\ SpecOutcome(resp[1]) \in {"Created", "AlreadyExists"}
                       /\ pubResult = Some(TRUE)

\* ------------------------------------------------------------------- C4
\* C4 (as claimed): a creation request whose outcome is Failed (no HTTP
\* response, an unparseable body, any other error response) ends the run
\* with main reporting the failure and returning 1, and no exception escapes.
C4_FailedIsReported ==
    (pc = "done" /\ resp # None /\ SpecOutcome(resp[1]) = "Failed")
        => /\ raised = ""
           /\ ret = 1
           /\ Printed("\n[x] Failed to create repository")

\* ------------------------------------------------------------------- C5
PushStatus == IF Len(cmdlog) = Len(commands) THEN cmdlog[Len(commands)].status ELSE "none"

LogInOrder == \A i \in 1..Len(cmdlog) : cmdlog[i].cmd = Join(commands[i])

\* `remote add` or `branch -M` could not be run at all.
EarlyRaise == \E i \in 2..3 : i <= Len(cmdlog) /\ cmdlog[i].status = "raise"

\* C5 (as claimed): whatever the first three commands did, all four were
\* attempted in order and setup_git_remote fails exactly when the push fails.
C5_OnlyPushFatal ==
    pc = "published" =>
        /\ Len(cmdlog) = Len(commands)
        /\ LogInOrder
        /\ pubResult = Some(FALSE) <=> PushStatus # "ok"

\* C5 (amended): the same for every combination of exit statuses of the
\* first three commands and for `remote remove` failing to run; but when
\* `remote add` or `branch -M` cannot be run at all, setup_git_remote
\* returns failure at once and attempts no later command.
C5_OnlyPushFatalUnlessCannotRun ==
    pc = "published" =>
        /\ LogInOrder
        /\ ~EarlyRaise =>
              /\ Len(cmdlog) = Len(commands)
              /\ pubResult = Some(FALSE) <=> PushStatus # "ok"
        /\ \A i \in 2..3 :
              (i <= Len(cmdlog) /\ cmdlog[i].status = "raise")
                  => Len(cmdlog) = i /\ pubResult = Some(FALSE)

\* The first three commands all exited non-zero, the push succeeded.
C5_Witness ==
    /\ pc = "published"
    /\ Len(cmdlog) = 4
    /\ \A i \in 1..3 : cmdlog[i].status = "fail"
    /\ cmdlog[4].status = "ok"
    /\ pubResult = Some(TRUE)

\* ------------------------------------------------------------------- C6
\* C6 (as claimed): a token file that exists but cannot be read does not make
\* get_github_token raise.
C6_UnreadableFileIsSkipped ==
    (\E i \in 1..Len(consulted) : consulted[i].kind = "unreadable") => raised = ""

\* ------------------------------------------------------------------- C7
ManualAdd == "git remote add origin " \o RemoteUrl

\* The run printed the manual git commands in one of the two forms main has.
PrintedManualCommands ==
    \/ Printed("  5. Run: " \o ManualAdd) /\ Printed("  6. Run: " \o PushCmd)
    \/ Printed("  " \o ManualAdd) /\ Printed("  git branch -M main")
       /\ Printed("  " \o PushCmd)

NothingRetried == \A i \in 1..Len(effects) : Count(effects[i]) = 1

\* C7 (as claimed): every run main ends with status 1 printed the manual git
\* commands, and nothing was issued twice.
C7_EveryAbortPrintsManual ==
    (pc = "done" /\ ret = 1) => PrintedManualCommands /\ NothingRetried

\* C7 (amended): a run ended with status 1 for lack of a token or by a
\* failed publish printed the manual git commands; a run ended by a failed
\* creation printed the failure and its error, and no git command; nothing
\* was issued twice.
C7_AbortsPrintManualExceptCreation ==
    (pc = "done" /\ ret = 1) =>
        /\ NothingRetried
        /\ IF resp # None /\ pubResult = None
           THEN /\ Printed("\n[x] Failed to create repository")
                /\ ~PrintedManualCommands
           ELSE /\ PrintedManualCommands
                /\ ~Resolved \/ pubResult = Some(FALSE)

\* A publish that failed because `branch -M` could not be run.
C7_Witness ==
    /\ pc = "done"
    /\ ret = 1
    /\ Len(cmdlog) = 3
    /\ cmdlog[3].status = "raise"
    /\ PrintedManualCommands

\* ------------------------------------------------------------------- C8
PushExitedNonZero ==
    \E i \in 1..Len(cmdlog) : cmdlog[i].cmd = PushCmd /\ cmdlog[i].status = "fail"

\* C8: once the push has exited non-zero, the push was issued once, the
\* success banner is never printed, main does not return 0, and the finished
\* run has printed the diagnostic with the push's stderr, after it the three
\* manual commands in order, and returned 1.
C8_PushFailure ==
    PushExitedNonZero =>
        /\ Count(PushCmd) = 1
        /\ ~Printed("[ok] GitHub Repository Setup Complete!")
        /\ ~Printed("[ok] Code pushed to GitHub")
        /\ ret # 0
        /\ pc \in {"published", "done"}
        /\ pc = "done" =>
              /\ ret = 1
              /\ raised = ""
              /\ \E d \in 1..Len(out) :
                    /\ out[d] = "\n[x] Failed to push: " \o cmdlog[Len(cmdlog)].stderr
                    /\ \E a \in (d + 1)..Len(out) :
                          /\ out[a] = "  " \o ManualAdd
                          /\ \E b \in (a + 1)..Len(out) :
                                /\ out[b] = "  git branch -M main"
                                /\ \E p \in (b + 1)..Len(out) : out[p] = "  " \o PushCmd

\* A finished run whose push was refused with "remote: Permission denied".
C8_Witness ==
    /\ pc = "done"
    /\ PushExitedNonZero
    /\ cmdlog[4].stderr = "remote: Permission denied"
    /\ ret = 1

\* ------------------------------------------------------------------- C9
FromEarlierRun(o) == o \in {None, Some(RemoteUrl)}

\* C9: a call of setup_git_remote that started with origin absent or left by
\* an earlier call, in which no command was unable to run and the push did
\* not fail, reports success and leaves origin at the repository's SSH URL;
\* so did the call before it on the same repository.
C9_RepeatedPublish ==
    /\ (/\ pc = "published"
        /\ FromEarlierRun(originAtStart)
        /\ \A i \in 1..Len(cmdlog) : cmdlog[i].status # "raise"
        /\ PushStatus # "fail")
            => pubResult = Some(TRUE) /\ origin = Some(RemoteUrl)
    /\ (prevPub # None /\ FromEarlierRun(prevPub[1].before) /\ prevPub[1].result)
            => prevPub[1].after = Some(RemoteUrl)

\* The second call in a row: the first found no origin (its `remote remove`
\* failed) and succeeded, the second found the origin the first left.
C9_Witness ==
    /\ run = 2
    /\ pc = "published"
    /\ prevPub = Some([before |-> None, result |-> TRUE, after |-> Some(RemoteUrl)])
    /\ originAtStart = Some(RemoteUrl)
    /\ cmdlog[1].status = "ok"
    /\ pubResult = Some(TRUE)
    /\ origin = Some(RemoteUrl)

\* ------------------------------------------------------------------ C10
\* 1 for the resolver's reads, 2 for the POST, 3 for a git command.
Phase(e) == IF e = PostEffect THEN 2 ELSE IF e \in GitEffects THEN 3 ELSE 1

\* C10: the run's external effects are the resolver's reads, then at most one
\* POST, then git commands; the POST is issued only with a non-empty token;
\* a git command only after a POST that ended Created or AlreadyExists; a
\* run aborted for lack of a token issued nothing after the resolver's reads,
\* and a run aborted by the creation issued nothing after the POST.
C10_OrderedAndGated ==
    /\ \A i, j \in 1..Len(effects) : i < j => Phase(effects[i]) <= Phase(effects[j])
    /\ Count(PostEffect) <= 1
    /\ Count(PostEffect) = 1 => token # None /\ token[1] # <<>> /\ resp # None
    /\ (\E i \in 1..Len(effects) : Phase(effects[i]) = 3)
          => /\ Count(PostEffect) = 1
             /\ resp # None
             /\ SpecOutcome(resp[1]) \in {"Created", "AlreadyExists"}
    /\ (pc = "done" /\ ret = 1 /\ ~Resolved) => Len(effects) = Len(SourceOrder)
    /\ (pc = "done" /\ Resolved /\ pubResult = None)
          => effects[Len(effects)] = PostEffect

\* A finished run that read three sources, posted once and ran all four git
\* commands.
C10_Witness ==
    /\ pc = "done"
    /\ Len(effects) = 8
    /\ effects[4] = PostEffect
    /\ effects[8] = PushCmd

====
